---------------------------- MODULE Spec2Model ----------------------------
(***************************************************************************)
(* Model of knot_resolver_manager/utils/modelling.py: the type-directed    *)
(* validator _validated_object_type and the SchemaNode construction        *)
(* protocol (__init__, _assign_fields, _get_converted_value, _validate).   *)
(*                                                                         *)
(* Python values are tagged records, [k |-> kind, ...]; an outcome is      *)
(* either Ok(value) or Raise(exception class, message, path).  A path is   *)
(* the sequence of the segments the code appends to object_path, so the    *)
(* path "" is <<>> and "/port" is <<"/port">>.                             *)
(***************************************************************************)
EXTENDS Integers, Sequences, FiniteSets, TLC

(***************************************************************************)
(* Bounds of the explored inputs.                                          *)
(***************************************************************************)
MaxLen == 2
MaxKeys == 2

(***************************************************************************)
(* Python values.                                                          *)
(***************************************************************************)
PyNone == [k |-> "none"]
PyInt(n) == [k |-> "int", v |-> n]
PyStr(s) == [k |-> "str", v |-> s]
PyBool(b) == [k |-> "bool", v |-> b]
PyList(s) == [k |-> "list", v |-> s]
PyTuple(s) == [k |-> "tuple", v |-> s]
\* a dict keeps insertion order: a sequence of <<key, value>> with unique
\* keys; the keys of a Normalized Tree are strings
PyDict(s) == [k |-> "dict", v |-> s]
\* a SchemaNode instance: its class, its assigned fields, its _source
PyInst(c, f, s) == [k |-> "inst", cls |-> c, f |-> f, src |-> s]

(***************************************************************************)
(* Type annotations (the cls argument of _validated_object_type).          *)
(***************************************************************************)
TNone == [t |-> "none"]
TInt == [t |-> "int"]
TStr == [t |-> "str"]
TBool == [t |-> "bool"]
TFloat == [t |-> "float"]
TBytes == [t |-> "class"]
TLiteral(x) == [t |-> "literal", v |-> x]
TList(e) == [t |-> "list", e |-> e]
TDict(kt, vt) == [t |-> "dict", key |-> kt, val |-> vt]
TTuple(ts) == [t |-> "tuple", ts |-> ts]
TUnion(vs) == [t |-> "union", vs |-> vs]
TSchema(n) == [t |-> "schema", name |-> n]

(***************************************************************************)
(* Outcomes: a returned value, or a raised exception.                      *)
(***************************************************************************)
Ok(x) == [ok |-> TRUE, val |-> x]
\* args: the number of arguments the exception was raised with
Raise(e, m, p) == [ok |-> FALSE, exc |-> e, msg |-> m, path |-> p, args |-> 1, keys |-> {}]
RaiseBare(e) == [ok |-> FALSE, exc |-> e, msg |-> "", path |-> <<>>, args |-> 0, keys |-> {}]
SchemaExc(m, p) == Raise("SchemaException", m, p)
IsSchemaExc(r) == ~r.ok /\ r.exc = "SchemaException"

MsgNorway == "Expected str, found bool. Be careful, that YAML parsers consider even \"no\" and \"yes\" as a bool."
MsgUnion == "Union could not be parsed - parsing of all variants failed."
MsgFloat == "Floating point values are not supported in the parser."
MsgDictLike == "Expected dict-like object, but failed to access its .items() method."
MsgNotParsable == "Type cannot be parsed. This is a implementation error."
MsgNotIterable == "object is not iterable"
MsgConflict == "has default value and transformation function at the same time"
MsgArity == "Transformation function has wrong number of arguments"
MsgGenericTransform == "Failed to validate value type"
MsgGenericValidate == "Validation error"
MsgUnusedKeys == "Keys in your configuration object are not part of the configuration schema."
MsgMissing(name) == "Missing attribute '" \o name \o "'."

(***************************************************************************)
(* type(obj) and the conversions int(obj), str(obj).                       *)
(***************************************************************************)
Digits == <<"0", "1", "2", "3", "4", "5", "6", "7", "8", "9">>

RECURSIVE IntToStr(_)
IntToStr(n) ==
    IF n < 0 THEN "-" \o IntToStr(0 - n)
    ELSE IF n < 10 THEN Digits[n + 1]
    ELSE IntToStr(n \div 10) \o Digits[(n % 10) + 1]

\* is_obj_type with isinstance() semantics, under which a bool is an int
IsObjTypeIsinstance(obj, types) ==
    \/ obj.k \in types
    \/ obj.k = "bool" /\ "int" \in types

\* is_obj_type: type(obj) in types, an exact comparison
IsObjType(obj, types) == obj.k \in types

\* Python's == between an object and a scalar constant: bool is a subclass
\* of int, so True == 1 and False == 0
NumVal(x) == IF x.k = "bool" THEN (IF x.v THEN 1 ELSE 0) ELSE x.v
PyEq(obj, expected) ==
    IF obj.k \in {"int", "bool"} /\ expected.k \in {"int", "bool"}
    THEN NumVal(obj) = NumVal(expected)
    ELSE obj.k = expected.k /\ obj = expected

\* what iterating obj yields: list and tuple elements, a dict's keys, a
\* string's characters; anything else raises TypeError
IsIterable(obj) == obj.k \in {"list", "tuple", "dict", "str"}
IterItems(obj) ==
    CASE obj.k \in {"list", "tuple"} -> obj.v
      [] obj.k = "dict" -> [i \in 1..Len(obj.v) |-> obj.v[i][1]]
      [] obj.k = "str" -> [i \in 1..Len(obj.v) |-> PyStr(SubSeq(obj.v, i, i))]
      [] OTHER -> <<>>


(***************************************************************************)
(* Schema declarations explored by the model.  A field is its name, its    *)
(* annotation, its class-level default (if any) and its transformation     *)
(* function _<name> (if any).  A transformation function is described by   *)
(* what its body does and by its number of parameters.                     *)
(***************************************************************************)
NoFn == [kind |-> "none", key |-> "", msg |-> "", arity |-> 0]
\* def _f(source): return source[key] * 2     (arity 2: def _f(self, source))
FnTwice(key, arity) == [kind |-> "twice", key |-> key, msg |-> "", arity |-> arity]
\* def _f(source): return 5
FnConst(arity) == [kind |-> "const", key |-> "", msg |-> "", arity |-> arity]
\* def _f(source): raise ValueError(msg)
FnValueError(msg) == [kind |-> "ValueError", key |-> "", msg |-> msg, arity |-> 1]
\* def _f(source): raise ValueError()
FnValueErrorBare == [kind |-> "ValueErrorBare", key |-> "", msg |-> "", arity |-> 1]
\* def _f(source): raise DataException(msg)
FnDataException(msg) == [kind |-> "DataException", key |-> "", msg |-> msg, arity |-> 1]

Field(name, type) == [name |-> name, type |-> type, hasDefault |-> FALSE, default |-> PyNone, fn |-> NoFn]
FieldDefault(name, type, d) == [name |-> name, type |-> type, hasDefault |-> TRUE, default |-> d, fn |-> NoFn]
FieldFn(name, type, fn) == [name |-> name, type |-> type, hasDefault |-> FALSE, default |-> PyNone, fn |-> fn]
FieldDefaultFn(name, type, d, fn) == [name |-> name, type |-> type, hasDefault |-> TRUE, default |-> d, fn |-> fn]

\* _validate overrides: the inherited no-op, or a check that raises ValueError
HookPass == [kind |-> "pass", msg |-> ""]
HookCountNonZero == [kind |-> "count_nonzero", msg |-> "count must not be zero"]
HookValueError(msg) == [kind |-> "ValueError", msg |-> msg]
HookValueErrorBare == [kind |-> "ValueErrorBare", msg |-> ""]

Schema(prev, fields, hook) == [prev |-> prev, fields |-> fields, hook |-> hook]
NoPrev == ""

Schemas ==
    [ Port |-> Schema(NoPrev, <<Field("port", TInt)>>, HookPass),
      Name |-> Schema(NoPrev, <<Field("name", TStr)>>, HookPass),
      Base |-> Schema(NoPrev, <<Field("count", TInt)>>, HookCountNonZero),
      Derived |-> Schema("Base", <<FieldFn("doubled", TInt, FnTwice("count", 1))>>, HookPass),
      Quadrupled |-> Schema("Derived", <<FieldFn("quad", TInt, FnTwice("doubled", 1))>>, HookPass),
      DerivedRaw |-> Schema(NoPrev, <<FieldFn("doubled", TInt, FnTwice("count", 2))>>, HookPass),
      Scaled |-> Schema(NoPrev, <<FieldFn("x", TInt, FnTwice("x", 1))>>, HookPass),
      Conflict |-> Schema(NoPrev, <<FieldDefaultFn("x", TInt, PyInt(5), FnConst(1))>>, HookPass),
      ConflictLate |-> Schema(NoPrev, <<Field("port", TInt),
                                        FieldDefaultFn("x", TInt, PyInt(5), FnConst(1))>>, HookPass),
      ConflictChained |-> Schema("Base", <<FieldDefaultFn("x", TInt, PyInt(5), FnConst(1))>>, HookPass),
      Items |-> Schema(NoPrev, <<Field("xs", TList(TInt)),
                                 Field("opt", TUnion(<<TStr, TNone>>)),
                                 FieldDefault("limit", TInt, PyInt(7))>>, HookPass),
      Pair |-> Schema(NoPrev, <<Field("pair", TTuple(<<TInt, TStr>>)),
                                FieldDefault("tags", TDict(TStr, TInt), PyDict(<<>>))>>, HookPass),
      Rejecting |-> Schema(NoPrev, <<Field("port", TInt),
                                     FieldFn("x", TInt, FnValueError("x is out of range"))>>, HookPass),
      RejectingBare |-> Schema(NoPrev, <<FieldFn("x", TInt, FnValueErrorBare)>>, HookPass),
      RejectingData |-> Schema(NoPrev, <<FieldFn("x", TInt, FnDataException("x is not a domain name"))>>, HookPass),
      BadArity |-> Schema(NoPrev, <<FieldFn("x", TInt, FnConst(3))>>, HookPass),
      Strict |-> Schema(NoPrev, <<Field("count", TInt),
                                  FieldDefault("limit", TInt, PyInt(7))>>, HookValueError("count and limit disagree")),
      StrictBare |-> Schema(NoPrev, <<Field("count", TInt)>>, HookValueErrorBare),
      Outer |-> Schema(NoPrev, <<Field("inner", TSchema("Port")),
                                 Field("name", TUnion(<<TInt, TStr>>))>>, HookPass) ]

SchemaNames == DOMAIN Schemas
FieldsOf(c) == Schemas[c].fields
FieldNames(c) == {FieldsOf(c)[i].name : i \in 1..Len(FieldsOf(c))}

(***************************************************************************)
(* Access to a source object: a ParsedTree (a mapping) or a SchemaNode.    *)
(***************************************************************************)
TreeKeys(tree) == {tree.v[i][1].v : i \in 1..Len(tree.v)}
TreeContains(tree, key) == key \in TreeKeys(tree)
TreeGetItem(tree, key) == (CHOOSE i \in 1..Len(tree.v) : tree.v[i][1].v = key)

InstAttrs(inst) == {inst.f[i][1] : i \in 1..Len(inst.f)}
\* SchemaNode.__contains__: hasattr(self, item)
InstContains(inst, item) == item \in InstAttrs(inst)
InstAttr(inst, key) == inst.f[CHOOSE i \in 1..Len(inst.f) : inst.f[i][1] = key][2]
\* SchemaNode.__getitem__
InstGetItem(inst, key) ==
    IF ~InstContains(inst, key)
    THEN Raise("RuntimeError", "Object does not have field named '" \o key \o "'", <<>>)
    ELSE Ok(InstAttr(inst, key))

\* `name in source`
SourceContains(source, name) ==
    CASE source.k = "dict" -> Ok(TreeContains(source, name))
      [] source.k = "inst" -> Ok(InstContains(source, name))
      [] OTHER -> Raise("TypeError", "argument is not iterable", <<>>)

\* `source[name]`
SourceGetItem(source, name) ==
    CASE source.k = "dict" ->
            IF TreeContains(source, name)
            THEN Ok(source.v[TreeGetItem(source, name)][2])
            ELSE Raise("KeyError", name, <<>>)
      [] source.k = "inst" -> InstGetItem(source, name)
      [] OTHER -> Raise("TypeError", "object is not subscriptable", <<>>)

\* SchemaNode.get_unparsed_data
RECURSIVE GetUnparsedData(_)
GetUnparsedData(inst) ==
    IF inst.src.k = "inst" THEN GetUnparsedData(inst.src) ELSE inst.src

\* is_optional(python_type): Optional[T], which typing normalises to Union[T, None]
IsOptional(type) ==
    /\ type.t = "union"
    /\ Len(type.vs) = 2
    /\ \E i \in 1..2 : type.vs[i] = TNone


(***************************************************************************)
(* What the bodies of the declared transformation functions and _validate  *)
(* overrides do.                                                           *)
(***************************************************************************)
\* Python's `value * 2`
PyTwice(x) ==
    CASE x.k = "int" -> Ok(PyInt(x.v * 2))
      [] x.k = "bool" -> Ok(PyInt(NumVal(x) * 2))
      [] x.k = "str" -> Ok(PyStr(x.v \o x.v))
      [] x.k = "list" -> Ok(PyList(x.v \o x.v))
      [] x.k = "tuple" -> Ok(PyTuple(x.v \o x.v))
      [] OTHER -> Raise("TypeError", "unsupported operand type(s) for *", <<>>)

CallFn(fn, source) ==
    CASE fn.kind = "twice" ->
            LET got == SourceGetItem(source, fn.key)
            IN  IF got.ok THEN PyTwice(got.val) ELSE got
      [] fn.kind = "const" -> Ok(PyInt(5))
      [] fn.kind = "ValueError" -> Raise("ValueError", fn.msg, <<>>)
      [] fn.kind = "ValueErrorBare" -> RaiseBare("ValueError")
      [] fn.kind = "DataException" -> Raise("DataException", fn.msg, <<>>)

CallHook(hook, inst) ==
    CASE hook.kind = "pass" -> Ok(PyNone)
      [] hook.kind = "count_nonzero" ->
            IF InstAttr(inst, "count") = PyInt(0)
            THEN Raise("ValueError", hook.msg, <<>>)
            ELSE Ok(PyNone)
      [] hook.kind = "ValueError" -> Raise("ValueError", hook.msg, <<>>)
      [] hook.kind = "ValueErrorBare" -> RaiseBare("ValueError")

(***************************************************************************)
(* Sequencing of outcomes: an exception ends the computation.              *)
(***************************************************************************)
\* `r` then `F(value of r)`, unless r raised
Bind(r, F(_)) == IF r.ok THEN F(r.val) ELSE r
\* try: r / except SchemaException: rest
ExceptSchemaException(r, rest) == IF IsSchemaExc(r) THEN rest ELSE r

(***************************************************************************)
(* SchemaNode._get_converted_value                                         *)
(***************************************************************************)
\* no except clause: the exception of the function escapes as it is
TranslateFnErrorNone(r, object_path) == r

\* the except clause of lines 371-376
TranslateFnError(r, object_path) ==
    IF ~r.ok /\ r.exc \in {"ValueError", "DataException"}
    THEN SchemaExc(IF r.args > 0 THEN r.msg ELSE MsgGenericTransform, object_path)
    ELSE r

GetConvertedValue(fn, source, object_path) ==
    TranslateFnError(IF fn.arity \in {1, 2}
                     THEN CallFn(fn, source)
                     ELSE Raise("RuntimeError", MsgArity, <<>>),
                     object_path)

(***************************************************************************)
(* _validated_object_type(cls, obj, object_path).  No call site passes     *)
(* use_default, so the branch of line 44 is never taken.  The nodes of a   *)
(* Normalized Tree are never CustomValueType or enum instances.            *)
(***************************************************************************)
\* repr(obj) in place of str(obj): a string comes out quoted
PyStrOfRepr(obj) == IF obj.k = "int" THEN IntToStr(obj.v) ELSE "'" \o obj.v \o "'"

\* str(obj) of a str or an int
PyStrOf(obj) == IF obj.k = "int" THEN IntToStr(obj.v) ELSE obj.v

\* d[key] = val on an insertion-ordered dict
KeyEq(a, b) ==
    IF a.k \in {"int", "bool"} /\ b.k \in {"int", "bool"}
    THEN NumVal(a) = NumVal(b)
    ELSE a.k = b.k /\ a = b
DictPut(pairs, key, val) ==
    IF \E i \in 1..Len(pairs) : KeyEq(pairs[i][1], key)
    THEN [i \in 1..Len(pairs) |->
            IF KeyEq(pairs[i][1], key) THEN <<pairs[i][1], val>> ELSE pairs[i]]
    ELSE Append(pairs, <<key, val>>)
Hashable(key) == key.k \notin {"list", "dict"}

\* bool(obj)
PyTruthy(obj) ==
    CASE obj.k = "none" -> FALSE
      [] obj.k = "int" -> obj.v # 0
      [] obj.k = "bool" -> obj.v
      [] obj.k = "str" -> obj.v # ""
      [] obj.k \in {"list", "tuple", "dict"} -> obj.v # <<>>
      [] OTHER -> TRUE

\* the variant tried at step i of the loop over the variants
VariantAt(variants, i) == variants[i]

\* the path of an item of a List
ItemPath(object_path) == Append(object_path, "[]")
KeyPath(object_path, key) == Append(object_path, " @ key " \o PyStrOf(key))
ValuePath(object_path, key) == Append(object_path, " @ value for key " \o PyStrOf(key))

RECURSIVE Validated(_, _, _)
RECURSIVE ValidatedUnion(_, _, _, _)
RECURSIVE ValidatedList(_, _, _, _)
RECURSIVE ValidatedTuple(_, _, _, _)
RECURSIVE ValidatedDict(_, _, _, _, _)
RECURSIVE Construct(_, _, _)
RECURSIVE AssignFields(_, _, _, _, _, _)

\* Union[*variants]: the loop of lines 57-62, from variant i on
ValidatedUnion(variants, i, obj, object_path) ==
    IF i > Len(variants) THEN SchemaExc(MsgUnion, object_path)
    ELSE ExceptSchemaException(Validated(VariantAt(variants, i), obj, object_path),
                               ValidatedUnion(variants, i + 1, obj, object_path))

\* List[T]: the comprehension of line 140 over the remaining items
ValidatedList(inner_type, items, object_path, acc) ==
    IF items = <<>> THEN Ok(PyList(acc))
    ELSE Bind(Validated(inner_type, Head(items), ItemPath(object_path)),
              LAMBDA v : ValidatedList(inner_type, Tail(items), object_path,
                                       Append(acc, v)))

\* Tuple[A,B,...]: zip(types, obj) of line 145 stops at the shorter one
ValidatedTuple(types, items, object_path, acc) ==
    IF types = <<>> \/ items = <<>> THEN Ok(PyTuple(acc))
    ELSE Bind(Validated(Head(types), Head(items), object_path),
              LAMBDA v : ValidatedTuple(Tail(types), Tail(items), object_path,
                                        Append(acc, v)))

\* Dict[K,V]: the comprehension of lines 119-124 over the remaining items;
\* the key is validated before the value
ValidatedDict(key_type, val_type, pairs, object_path, acc) ==
    IF pairs = <<>> THEN Ok(PyDict(acc))
    ELSE Bind(Validated(key_type, Head(pairs)[1], KeyPath(object_path, Head(pairs)[1])),
              LAMBDA key :
         Bind(Validated(val_type, Head(pairs)[2], ValuePath(object_path, Head(pairs)[1])),
              LAMBDA val :
                IF Hashable(key)
                THEN ValidatedDict(key_type, val_type, Tail(pairs), object_path,
                                   DictPut(acc, key, val))
                ELSE Raise("TypeError", "unhashable type", <<>>)))

Validated(cls, obj, object_path) ==
    CASE cls.t = "none" ->
            IF obj = PyNone THEN Ok(PyNone)
            ELSE SchemaExc("Expected None, found value", object_path)
      [] cls.t = "union" -> ValidatedUnion(cls.vs, 1, obj, object_path)
      [] OTHER ->
            IF obj = PyNone
            THEN SchemaExc("Unexpected value 'None'", object_path)
            ELSE
            CASE cls.t = "int" ->
                    IF IsObjType(obj, {"int"}) THEN Ok(PyInt(NumVal(obj)))
                    ELSE SchemaExc("Expected int", object_path)
              [] cls.t = "str" ->
                    IF IsObjType(obj, {"str", "float", "int"}) THEN Ok(PyStr(PyStrOf(obj)))
                    ELSE IF IsObjType(obj, {"bool"}) THEN SchemaExc(MsgNorway, object_path)
                    ELSE SchemaExc("Expected str (or number that would be cast to string)",
                                   object_path)
              [] cls.t = "bool" ->
                    IF IsObjType(obj, {"bool"}) THEN Ok(obj)
                    ELSE SchemaExc("Expected bool", object_path)
              [] cls.t = "float" -> Raise("NotImplementedError", MsgFloat, <<>>)
              [] cls.t = "literal" ->
                    IF PyEq(obj, cls.v) THEN Ok(obj)
                    ELSE SchemaExc("Literal is not matched with the value", object_path)
              [] cls.t = "dict" ->
                    IF obj.k = "dict"
                    THEN ValidatedDict(cls.key, cls.val, obj.v, object_path, <<>>)
                    ELSE SchemaExc(MsgDictLike, object_path)
              [] cls.t = "list" ->
                    IF IsIterable(obj)
                    THEN ValidatedList(cls.e, IterItems(obj), object_path, <<>>)
                    ELSE Raise("TypeError", MsgNotIterable, <<>>)
              [] cls.t = "tuple" ->
                    IF IsIterable(obj)
                    THEN ValidatedTuple(cls.ts, IterItems(obj), object_path, <<>>)
                    ELSE Raise("TypeError", MsgNotIterable, <<>>)
              [] cls.t = "schema" ->
                    IF obj.k = "inst" /\ obj.cls = cls.name THEN Ok(obj)
                    ELSE IF obj.k \in {"dict", "inst"}
                         THEN Construct(cls.name, obj, object_path)
                         ELSE SchemaExc("Expected 'dict' or 'SchemaNode' object", object_path)
              [] OTHER -> SchemaExc(MsgNotParsable, object_path)

(***************************************************************************)
(* The construction protocol of SchemaNode.                                *)
(***************************************************************************)
\* the path of the schema handed on unchanged
FieldPathOfSchema(object_path, name) == object_path

\* f"{object_path}/{name}"
FieldPath(object_path, name) == Append(object_path, "/" \o name)

\* the missing attribute reported at the path of the field
MissingPathOfField(object_path, name) == FieldPath(object_path, name)

\* the path of the failure of line 313: the object_path of the schema
MissingPath(object_path, name) == object_path

\* getattr(cls, name, None)
ClassDefault(fld) == IF fld.hasDefault THEN fld.default ELSE PyNone

\* SchemaNode._assign_field (and _assign_default, which passes the default)
AssignField(fld, value, object_path) ==
    Validated(fld.type, value, FieldPath(object_path, fld.name))

\* the value set by setattr and whether the name is added to used_keys
Assigned(value, used) == Ok([value |-> value, used |-> used])

\* hasattr(self, f"_{name}") and hasattr(self, name)
HasFn(fld) == fld.fn.kind # "none"
HasDefault(fld) == fld.hasDefault

\* the lookup in the source tried before the transformation function
BranchLookupFirst(fld, source) ==
    IF source = PyNone THEN Ok("default")
    ELSE IF HasFn(fld) /\ HasDefault(fld) THEN Ok("conflict")
    ELSE Bind(SourceContains(source, fld.name),
              LAMBDA has : IF has THEN Ok("lookup")
                           ELSE IF HasFn(fld) THEN Ok("convert")
                           ELSE IF HasDefault(fld) \/ IsOptional(fld.type) THEN Ok("default")
                           ELSE Ok("missing"))

\* which branch of the loop body of _assign_fields (lines 285-313) is taken
Branch(fld, source) ==
    IF source = PyNone THEN Ok("default")
    ELSE IF HasFn(fld) /\ HasDefault(fld) THEN Ok("conflict")
    ELSE IF HasFn(fld) THEN Ok("convert")
    ELSE Bind(SourceContains(source, fld.name),
              LAMBDA has : IF has THEN Ok("lookup")
                           ELSE IF HasDefault(fld) \/ IsOptional(fld.type) THEN Ok("default")
                           ELSE Ok("missing"))

\* the value handed to _assign_field or _assign_default on that branch
BranchValue(branch, fld, source, object_path) ==
    CASE branch = "default" -> Ok(ClassDefault(fld))
      [] branch = "conflict" -> Raise("RuntimeError", MsgConflict, <<>>)
      [] branch = "convert" -> GetConvertedValue(fld.fn, source, object_path)
      [] branch = "lookup" -> SourceGetItem(source, fld.name)
      [] branch = "missing" -> SchemaExc(MsgMissing(fld.name), MissingPath(object_path, fld.name))

\* used_keys.add(name) left out after a transformation function
BranchUsesKeyLookupOnly(branch) == branch = "lookup"

\* whether the branch adds the name to used_keys
BranchUsesKey(branch) == branch \in {"convert", "lookup"}

\* one iteration of the loop of SchemaNode._assign_fields
AssignOne(fld, source, object_path) ==
    Bind(Branch(fld, source), LAMBDA branch :
    Bind(BranchValue(branch, fld, source, object_path), LAMBDA raw_value :
    Bind(AssignField(fld, raw_value, object_path), LAMBDA value :
         Assigned(value, BranchUsesKey(branch)))))

\* used_keys after one iteration
AddUsed(used_keys, name, assigned) ==
    IF assigned.used THEN used_keys \cup {name} ELSE used_keys

\* SchemaNode._assign_fields from field i on: the assigned fields and used_keys
AssignFields(c, source, object_path, i, f, used_keys) ==
    IF i > Len(FieldsOf(c)) THEN Ok([f |-> f, used |-> used_keys])
    ELSE Bind(AssignOne(FieldsOf(c)[i], source, object_path), LAMBDA a :
              AssignFields(c, source, object_path, i + 1,
                           Append(f, <<FieldsOf(c)[i].name, a.value>>),
                           AddUsed(used_keys, FieldsOf(c)[i].name, a)))

\* __init__ lines 319-322: None becomes an empty ParsedTree, a dict is wrapped
NormalizeSource(source) == IF source = PyNone THEN PyDict(<<>>) ELSE source

\* source.keys() - used_keys
UnusedKeys(source, used_keys) == TreeKeys(source) \ used_keys

\* __init__ lines 335-342.  An (empty) ParsedTree has no unused keys whatever
\* its truth value is
CheckUnused(source, used_keys, object_path) ==
    CASE source.k = "inst" -> Ok(PyNone)
      [] source.k = "dict" ->
            IF UnusedKeys(source, used_keys) # {}
            THEN [SchemaExc(MsgUnusedKeys, object_path)
                    EXCEPT !.keys = UnusedKeys(source, used_keys)]
            ELSE Ok(PyNone)
      [] OTHER ->
            IF PyTruthy(source)
            THEN Raise("AttributeError", "object has no attribute 'keys'", <<>>)
            ELSE Ok(PyNone)

\* no except clause: the ValueError of _validate escapes as it is
TranslateValidateErrorNone(r, object_path) == r

\* the except clause of lines 347-348
TranslateValidateError(r, object_path) ==
    IF ~r.ok /\ r.exc = "ValueError"
    THEN SchemaExc(IF r.args > 0 THEN r.msg ELSE MsgGenericValidate, object_path)
    ELSE r

\* __init__ lines 345-348: the instance, unless _validate raised
RunValidate(c, inst, object_path) ==
    Bind(TranslateValidateError(CallHook(Schemas[c].hook, inst), object_path),
         LAMBDA none : Ok(inst))

\* the effective source: the instance of the previous schema, if one is declared
EffectiveSource(c, raw, object_path) ==
    IF Schemas[c].prev # NoPrev
    THEN Construct(Schemas[c].prev, raw, object_path)
    ELSE Ok(raw)

\* SchemaNode.__init__(given, object_path) as one call
Construct(c, given, object_path) ==
    Bind(EffectiveSource(c, NormalizeSource(given), object_path), LAMBDA source :
    Bind(AssignFields(c, source, object_path, 1, <<>>, {}), LAMBDA a :
    Bind(CheckUnused(source, a.used, object_path), LAMBDA none :
         RunValidate(c, PyInst(c, a.f, NormalizeSource(given)), object_path))))

(***************************************************************************)
(* The explored inputs: annotations and nodes for a call of the validator, *)
(* schemas and sources for a construction.                                 *)
(***************************************************************************)
SeqsUpTo(S, n) == UNION {[1..m -> S] : m \in 0..n}

Scalars == {PyNone, PyInt(1), PyInt(5), PyStr("5"), PyStr("ab"),
            PyBool(TRUE), PyBool(FALSE)}
DictKeys == {PyStr("a"), PyStr("5")}
DictVals == {PyInt(1), PyStr("ab"), PyBool(TRUE)}
\* the dicts of at most n items over the keys K and the values V
DictsUpTo(K, V, n) ==
    {PyDict(p) : p \in {q \in SeqsUpTo(K \X V, n) :
                          \A i, j \in 1..Len(q) : i # j => q[i][1] # q[j][1]}}

Nodes ==
    Scalars
      \cup {PyList(q) : q \in SeqsUpTo(Scalars, MaxLen)}
      \cup DictsUpTo(DictKeys, DictVals, MaxKeys)
      \cup {PyList(<<PyList(<<PyInt(1)>>)>>),
            PyDict(<<<<PyStr("port"), PyInt(5)>>>>),
            PyDict(<<<<PyStr("count"), PyInt(5)>>>>),
            PyDict(<<<<PyStr("x"), PyInt(5)>>>>),
            PyDict(<<<<PyStr("a"), PyList(<<PyInt(1)>>)>>>>)}

ScalarTypes == {TNone, TInt, TStr, TBool, TFloat, TBytes,
                TLiteral(PyInt(1)), TLiteral(PyBool(TRUE)), TLiteral(PyStr("5"))}
ListTypes == {TList(e) : e \in {TInt, TStr, TBool, TLiteral(PyStr("5")), TList(TInt)}}
DictTypes == {TDict(TStr, TInt), TDict(TStr, TStr), TDict(TInt, TInt),
              TDict(TLiteral(PyStr("a")), TStr), TDict(TStr, TList(TInt))}
TupleTypes == {TTuple(<<a, b>>) : a, b \in {TInt, TStr, TLiteral(PyStr("5"))}}
                 \cup {TTuple(<<TLiteral(PyStr("5"))>>)}
SchemaTypes == {TSchema(n) : n \in {"Port", "Base", "Derived", "Scaled"}}
UnionMembers == {TNone, TInt, TStr, TBool, TList(TInt), TList(TStr),
                 TTuple(<<TLiteral(PyStr("5"))>>), TDict(TStr, TInt), TSchema("Port")}
UnionTypes == {TUnion(<<a, b>>) : a, b \in UnionMembers}
                 \cup {TUnion(<<TList(TInt), TBool, TInt>>), TUnion(<<TFloat, TInt>>),
                       TUnion(<<TInt, TFloat>>)}
Types == ScalarTypes \cup ListTypes \cup DictTypes \cup TupleTypes
            \cup SchemaTypes \cup UnionTypes

\* the keys a source for schema c may hold: the fields of c and of its
\* previous schemas, the keys its transformation functions read, a stray key
RECURSIVE ChainFields(_)
ChainFields(c) ==
    FieldNames(c) \cup (IF Schemas[c].prev # NoPrev THEN ChainFields(Schemas[c].prev) ELSE {})
FnKeys(c) ==
    {FieldsOf(c)[i].fn.key : i \in {j \in 1..Len(FieldsOf(c)) : FieldsOf(c)[j].fn.kind = "twice"}}
SourceKeys(c) == ChainFields(c) \cup FnKeys(c) \cup {"nmae"}
SourceVals == {PyInt(0), PyInt(3), PyStr("a"), PyBool(TRUE), PyNone,
               PyList(<<PyInt(1), PyInt(3)>>),
               PyDict(<<<<PyStr("port"), PyInt(3)>>>>),
               PyDict(<<<<PyStr("port"), PyStr("a")>>>>)}
\* the dict with the keys K, in the order of KeyOrder, and the values g[key]
KeyOrder == <<"port", "name", "count", "doubled", "quad", "x", "xs", "opt", "limit",
              "pair", "tags", "inner", "nmae">>
DictOf(K, g) ==
    LET keys == SelectSeq(KeyOrder, LAMBDA key : key \in K)
    IN  PyDict([i \in 1..Len(keys) |-> <<PyStr(keys[i]), g[keys[i]]>>])
Sources(c) ==
    {PyNone, PyInt(3)}
      \cup UNION {{DictOf(K, g) : g \in [K -> SourceVals]} :
                    K \in {L \in SUBSET SourceKeys(c) : Cardinality(L) <= MaxKeys}}

(***************************************************************************)
(* State.  A job is one call of _validated_object_type(cls, obj) or one    *)
(* construction cls(obj); a successful job is then run a second time on    *)
(* its own result.  A construction runs step by step on a stack of frames, *)
(* one per __init__ in progress (a schema and its previous schemas); the   *)
(* fields of one frame are the locals and attributes of that call.         *)
(***************************************************************************)
VARIABLES job, cls, obj, round, first, stack, result, events, unparsed

vars == <<job, cls, obj, round, first, stack, result, events, unparsed>>

Pending == [ok |-> FALSE, exc |-> "", msg |-> "", path |-> <<>>, args |-> 0, keys |-> {}]
RootPath == <<>>
\* the default object_path of _validated_object_type
DefaultPath == <<"/">>

\* the frame of SchemaNode.__init__(given, object_path) after lines 319-325
NewFrame(c, given, object_path) ==
    [cls |-> c,
     raw |-> NormalizeSource(given),
     source |-> NormalizeSource(given),
     path |-> object_path,
     phase |-> IF Schemas[c].prev # NoPrev THEN "previous" ELSE "fields",
     idx |-> 1,
     f |-> <<>>,
     used |-> {}]

Top == stack[Len(stack)]
Running == job = "construct" /\ stack # <<>>

Init ==
    /\ \/ /\ job = "validate"
          /\ cls \in Types
          /\ obj \in Nodes
       \/ /\ job = "construct"
          /\ cls \in SchemaNames
          /\ obj \in Sources(cls)
    /\ round = 1
    /\ first = Pending
    /\ stack = <<>>
    /\ result = Pending
    /\ events = <<>>
    /\ unparsed = PyNone

\* what the construction has done so far: <<step, schema, field, succeeded>>
Event(step, c, name, succeeded) == <<step, c, name, succeeded>>

\* _validated_object_type(cls, obj)
Validate ==
    /\ job = "validate" /\ round = 1 /\ result = Pending
    /\ result' = Validated(cls, obj, DefaultPath)
    /\ UNCHANGED <<job, cls, obj, round, first, stack, events, unparsed>>

\* _validated_object_type(cls, v) on the value v the first call returned
Revalidate ==
    /\ job = "validate" /\ round = 1 /\ result.ok
    /\ first' = result
    /\ obj' = result.val
    /\ round' = 2
    /\ result' = Validated(cls, result.val, DefaultPath)
    /\ UNCHANGED <<job, cls, stack, events, unparsed>>

\* cls(obj): __init__ up to line 325
Enter ==
    /\ job = "construct" /\ stack = <<>> /\ result = Pending
    /\ stack' = <<NewFrame(cls, obj, RootPath)>>
    /\ events' = Append(events, Event("enter", cls, "", TRUE))
    /\ UNCHANGED <<job, cls, obj, round, first, result, unparsed>>

\* __init__ lines 328-329: the call of _PREVIOUS_SCHEMA(source, object_path)
EnterPrevious ==
    /\ Running /\ Top.phase = "previous"
    /\ stack' = Append([stack EXCEPT ![Len(stack)].phase = "waiting"],
                       NewFrame(Schemas[Top.cls].prev, Top.source, Top.path))
    /\ events' = Append(events, Event("enter", Schemas[Top.cls].prev, "", TRUE))
    /\ UNCHANGED <<job, cls, obj, round, first, result, unparsed>>

\* the frame after setattr(self, name, value) and used_keys.add(name)
FrameAssigned(frame, name, a) ==
    [frame EXCEPT !.idx = @ + 1,
                  !.f = Append(@, <<name, a.value>>),
                  !.used = AddUsed(@, name, a)]

\* the step taken on outcome r: the stack goes on, or the exception leaves
\* every __init__ in progress, as nothing catches it
Step(r, next_stack, next_result, step, name) ==
    /\ events' = Append(events, Event(step, Top.cls, name, r.ok))
    /\ IF r.ok
       THEN /\ stack' = next_stack
            /\ result' = next_result
       ELSE /\ stack' = <<>>
            /\ result' = r

\* one iteration of the loop of _assign_fields
AssignStep ==
    /\ Running /\ Top.phase = "fields" /\ Top.idx <= Len(FieldsOf(Top.cls))
    /\ LET r == AssignOne(FieldsOf(Top.cls)[Top.idx], Top.source, Top.path)
       IN  Step(r,
                [stack EXCEPT ![Len(stack)] =
                    FrameAssigned(@, FieldsOf(Top.cls)[Top.idx].name, r.val)],
                result,
                "assign", FieldsOf(Top.cls)[Top.idx].name)
    /\ UNCHANGED <<job, cls, obj, round, first, unparsed>>

\* __init__ lines 335-342, once _assign_fields has returned
UnusedStep ==
    /\ Running /\ Top.phase = "fields" /\ Top.idx > Len(FieldsOf(Top.cls))
    /\ Step(CheckUnused(Top.source, Top.used, Top.path),
            [stack EXCEPT ![Len(stack)].phase = "validate"],
            result,
            "unused", "")
    /\ UNCHANGED <<job, cls, obj, round, first, unparsed>>

\* the waiting __init__ going on with the source it was given
ReturnedKeepsSource(inst) ==
    IF Len(stack) = 1 THEN <<>>
    ELSE [SubSeq(stack, 1, Len(stack) - 1) EXCEPT ![Len(stack) - 1].phase = "fields"]

\* the stack after the top __init__ returned inst: the __init__ that waits
\* for its previous schema goes on with inst as its source
Returned(inst) ==
    IF Len(stack) = 1 THEN <<>>
    ELSE [SubSeq(stack, 1, Len(stack) - 1) EXCEPT ![Len(stack) - 1] =
             [@ EXCEPT !.source = inst, !.phase = "fields"]]

\* __init__ lines 345-348 and the return
ValidateStep ==
    /\ Running /\ Top.phase = "validate"
    /\ LET r == RunValidate(Top.cls, PyInst(Top.cls, Top.f, Top.raw), Top.path)
       IN  Step(r,
                Returned(r.val),
                IF Len(stack) = 1 THEN r ELSE result,
                "validate", "")
    /\ UNCHANGED <<job, cls, obj, round, first, unparsed>>

\* cls(v) on the instance v the first construction returned
Reconstruct ==
    /\ job = "construct" /\ round = 1 /\ result.ok
    /\ first' = result
    /\ obj' = result.val
    /\ round' = 2
    /\ result' = Pending
    /\ events' = <<>>
    /\ UNCHANGED <<job, cls, stack, unparsed>>

\* get_unparsed_data() of the constructed instance
Unparse ==
    /\ job = "construct" /\ result.ok /\ unparsed = PyNone
    /\ unparsed' = GetUnparsedData(result.val)
    /\ UNCHANGED <<job, cls, obj, round, first, stack, result, events>>

Next ==
    \/ Validate
    \/ Revalidate
    \/ Enter
    \/ EnterPrevious
    \/ AssignStep
    \/ UnusedStep
    \/ ValidateStep
    \/ Reconstruct
    \/ Unparse

Spec == Init /\ [][Next]_vars


(***************************************************************************)
(* Properties.                                                             *)
(***************************************************************************)
Finished == result # Pending
ValidatedOnce == job = "validate" /\ round = 1 /\ Finished
ConstructedOnce == job = "construct" /\ round = 1 /\ Finished
EmptyMapping == PyDict(<<>>)
Mapping1(key, val) == PyDict(<<<<PyStr(key), val>>>>)

\* the variants of a union that accept the node: their validation returns
Accepting(union, node) ==
    {i \in 1..Len(union.vs) : Validated(union.vs[i], node, DefaultPath).ok}
FirstOf(S) == CHOOSE i \in S : \A j \in S : i <= j

\* C1: validating a node against a Union returns what the first variant, in
\* declared order, that accepts the node returns, whatever kind the variants
\* before it have, and fails with one SchemaException at the path of the
\* union when no variant accepts the node.
C1_UnionFirstAcceptingVariant ==
    (ValidatedOnce /\ cls.t = "union") =>
        IF Accepting(cls, obj) # {}
        THEN result = Validated(cls.vs[FirstOf(Accepting(cls, obj))], obj, DefaultPath)
        ELSE result = SchemaExc(MsgUnion, DefaultPath)

\* C2 as stated: constructing Port (port: int, required) from {} fails with
\* the missing-attribute SchemaException at the path /port.
C2_MissingFieldAtFieldPath ==
    (ConstructedOnce /\ cls = "Port" /\ obj = EmptyMapping) =>
        result = SchemaExc(MsgMissing("port"), FieldPath(RootPath, "port"))

\* C2 amended: constructing Port (port: int, required) from {} fails with the
\* SchemaException "Missing attribute 'port'." whose path is the path of the
\* schema itself; the field is named by the message, not by the path.
C2_MissingFieldAtSchemaPath ==
    (ConstructedOnce /\ cls = "Port" /\ obj \in {EmptyMapping, PyNone}) =>
        result = SchemaExc(MsgMissing("port"), RootPath)

C2_Witness ==
    /\ ConstructedOnce /\ cls = "Port" /\ obj = EmptyMapping
    /\ IsSchemaExc(result) /\ result.msg = MsgMissing("port")

\* the schemas that declare a field with a default and a transformation function
HasConflict(c) ==
    \E i \in 1..Len(FieldsOf(c)) : HasFn(FieldsOf(c)[i]) /\ HasDefault(FieldsOf(c)[i])

\* C3: constructing a schema that declares a field with both a default and a
\* transformation function ends in the RuntimeError of the conflict, for
\* every source, whatever the other fields and the previous schema are.
C3_ConflictForEveryInput ==
    (ConstructedOnce /\ HasConflict(cls)) =>
        (~result.ok /\ result.exc = "RuntimeError" /\ result.msg = MsgConflict)


LastEvent == events[Len(events)]
\* the unused-key check of a schema without a previous schema has just run
\* on the mapping the construction was given
UnusedChecked ==
    /\ job = "construct" /\ round = 1 /\ obj.k \in {"dict", "none"}
    /\ events # <<>> /\ LastEvent[1] = "unused"
    /\ Schemas[LastEvent[2]].prev = NoPrev
UnusedFailure(path, keys) == [SchemaExc(MsgUnusedKeys, path) EXCEPT !.keys = keys]

\* the keys C4 counts as consumed: the keys looked up directly for a field
\* and the keys the transformation functions read
ReadOrLookedUp(c, source) ==
    {n \in FieldNames(c) : TreeContains(source, n) /\
        \E i \in 1..Len(FieldsOf(c)) : FieldsOf(c)[i].name = n /\ ~HasFn(FieldsOf(c)[i])}
      \cup FnKeys(c)

\* C4 as stated: with a mapping as the source and every field assigned, the
\* construction fails on unused keys exactly when the source holds a key that
\* was neither looked up for a field nor read by a transformation function.
C4_UnusedIffNotReadOrLookedUp ==
    UnusedChecked =>
        (LastEvent[4] <=>
            TreeKeys(NormalizeSource(obj)) \ ReadOrLookedUp(LastEvent[2], NormalizeSource(obj)) = {})

\* C4 amended: with a mapping as the source and every field assigned, the
\* construction fails on unused keys exactly when the source holds a key that
\* is not the name of a declared field, and the failure names exactly those
\* keys: used_keys holds the names of the fields assigned from the source or
\* from a transformation function, never the keys a function has read.
C4_UnusedIffNotAFieldName ==
    UnusedChecked =>
        LET stray == TreeKeys(NormalizeSource(obj)) \ FieldNames(LastEvent[2])
        IN  /\ LastEvent[4] <=> stray = {}
            /\ stray # {} => result = UnusedFailure(RootPath, stray)

C4_Witness ==
    /\ UnusedChecked /\ cls = "DerivedRaw" /\ obj = Mapping1("count", PyInt(3))
    /\ result = UnusedFailure(RootPath, {"count"})

\* C5: a frame of a schema with a previous-schema link assigns no field until
\* the previous schema is constructed; from then on its source is the
\* instance the previous schema's whole construction returns for the
\* original source; a failure of that construction is the failure of the
\* whole; Derived from {"count": 3} has doubled = 6.
C5_PreviousSchemaFirst ==
    /\ \A i \in 1..Len(stack) :
          LET fr == stack[i]
              prev == Schemas[fr.cls].prev
          IN  prev # NoPrev =>
                IF fr.phase \in {"previous", "waiting"}
                THEN /\ fr.f = <<>> /\ fr.idx = 1 /\ fr.source = fr.raw
                     /\ fr.phase = "waiting" =>
                          /\ i < Len(stack)
                          /\ stack[i + 1].cls = prev
                          /\ stack[i + 1].raw = fr.raw
                          /\ stack[i + 1].path = fr.path
                ELSE /\ fr.source.k = "inst"
                     /\ fr.source.cls = prev
                     /\ Ok(fr.source) = Construct(prev, fr.raw, fr.path)
    /\ (ConstructedOnce /\ Schemas[cls].prev # NoPrev /\ obj.k \in {"dict", "none"}) =>
          LET before == Construct(Schemas[cls].prev, NormalizeSource(obj), RootPath)
          IN  ~before.ok => result = before
    /\ (ConstructedOnce /\ cls = "Derived" /\ obj = Mapping1("count", PyInt(3))) =>
          (result.ok /\ InstAttr(result.val, "doubled") = PyInt(6))

C5_Witness ==
    /\ ConstructedOnce /\ cls = "Derived" /\ obj = Mapping1("count", PyInt(3))
    /\ result.ok /\ result.val.f = <<<<"doubled", PyInt(6)>>>>
    /\ \E i \in 1..Len(events) : events[i] = Event("validate", "Base", "", TRUE)

\* the schemas whose declaration has no defect, and no transformation
\* function either (whose body is the schema author's code)
DefectFree(c) ==
    /\ ~HasConflict(c)
    /\ \A i \in 1..Len(FieldsOf(c)) : ~HasFn(FieldsOf(c)[i])
    /\ Schemas[c].prev = NoPrev

\* C6: constructing a schema without a defect from a mapping (or from
\* nothing) returns an instance or raises SchemaException, nothing else.
C6_OnlySchemaException ==
    (ConstructedOnce /\ DefectFree(cls) /\ obj.k \in {"dict", "none"}) =>
        (result.ok \/ IsSchemaExc(result))


\* C7: a bool is rejected by int (also as an item of a List[int]) and by
\* str, there with the message about YAML's truthy spellings; bool accepts a
\* bool, unchanged, and nothing else.
C7_BoolIsNeitherIntNorStr ==
    ValidatedOnce =>
        /\ (cls = TInt /\ obj.k = "bool") => IsSchemaExc(result)
        /\ (cls = TStr /\ obj.k = "bool") => result = SchemaExc(MsgNorway, DefaultPath)
        /\ (cls = TList(TInt) /\ obj.k = "list"
              /\ \E i \in 1..Len(obj.v) : obj.v[i].k = "bool") => IsSchemaExc(result)
        /\ cls = TBool =>
              /\ result.ok <=> obj.k = "bool"
              /\ result.ok => result.val = obj
              /\ ~result.ok => IsSchemaExc(result)

C7_Witness ==
    /\ ValidatedOnce /\ cls = TStr /\ obj = PyBool(TRUE)
    /\ result = SchemaExc(MsgNorway, DefaultPath)

FieldNamed(c, name) ==
    FieldsOf(c)[CHOOSE i \in 1..Len(FieldsOf(c)) : FieldsOf(c)[i].name = name]
\* the construction has just failed while assigning a field that has a
\* transformation function and no default
FnFieldFailed ==
    /\ job = "construct" /\ events # <<>>
    /\ LastEvent[1] = "assign" /\ ~LastEvent[4]
    /\ HasFn(FieldNamed(LastEvent[2], LastEvent[3]))
    /\ ~HasDefault(FieldNamed(LastEvent[2], LastEvent[3]))

\* C8: when the transformation function of a field raises ValueError or
\* DataException with a message, the construction fails with a
\* SchemaException carrying that message; a ValueError without arguments
\* gives the generic message; a function with neither 1 nor 2 parameters
\* gives the RuntimeError, not a SchemaException.
C8_TransformationErrors ==
    FnFieldFailed =>
        LET fn == FieldNamed(LastEvent[2], LastEvent[3]).fn
        IN  /\ fn.arity \notin {1, 2} =>
                  (~result.ok /\ result.exc = "RuntimeError" /\ result.msg = MsgArity)
            /\ (fn.arity \in {1, 2} /\ fn.kind \in {"ValueError", "DataException"}) =>
                  result = SchemaExc(fn.msg, RootPath)
            /\ (fn.arity \in {1, 2} /\ fn.kind = "ValueErrorBare") =>
                  result = SchemaExc(MsgGenericTransform, RootPath)

C8_Witness ==
    /\ FnFieldFailed /\ cls = "Rejecting"
    /\ result = SchemaExc("x is out of range", RootPath)

ValidateEvents(c) ==
    {i \in 1..Len(events) : events[i][1] = "validate" /\ events[i][2] = c}
RECURSIVE Chain(_)
Chain(c) == {c} \cup (IF Schemas[c].prev # NoPrev THEN Chain(Schemas[c].prev) ELSE {})

\* C9: _validate of a schema runs at most once in a construction and only
\* after every field of the schema was assigned and its unused-key check
\* passed, with no failure before it; a construction that returns ran it
\* once for the schema and once for each previous schema; a ValueError it
\* raises becomes a SchemaException at the path of the schema, with the
\* message of the ValueError (a generic one when it has no arguments).
C9_ValidateOnceAfterAssignment ==
    job = "construct" =>
        /\ \A i \in 1..Len(events) : events[i][1] = "validate" =>
              LET c == events[i][2]
              IN  /\ ValidateEvents(c) = {i}
                  /\ \A n \in FieldNames(c) :
                        \E j \in 1..(i - 1) : events[j] = Event("assign", c, n, TRUE)
                  /\ \E j \in 1..(i - 1) : events[j] = Event("unused", c, "", TRUE)
                  /\ \A j \in 1..(i - 1) : events[j][4]
        /\ (stack # <<>> /\ Top.phase = "validate") =>
              [i \in 1..Len(Top.f) |-> Top.f[i][1]]
                 = [i \in 1..Len(FieldsOf(Top.cls)) |-> FieldsOf(Top.cls)[i].name]
        /\ (Finished /\ result.ok) =>
              \A c \in Chain(cls) : Cardinality(ValidateEvents(c)) = 1
        /\ (Finished /\ LastEvent[1] = "validate" /\ ~LastEvent[4]) =>
              LET hook == Schemas[LastEvent[2]].hook
              IN  result = SchemaExc(IF hook.kind = "ValueErrorBare"
                                     THEN MsgGenericValidate ELSE hook.msg, RootPath)

C9_Witness ==
    /\ ConstructedOnce /\ cls = "Strict"
    /\ events = <<Event("enter", "Strict", "", TRUE),
                  Event("assign", "Strict", "count", TRUE),
                  Event("assign", "Strict", "limit", TRUE),
                  Event("unused", "Strict", "", TRUE),
                  Event("validate", "Strict", "", FALSE)>>
    /\ result = SchemaExc("count and limit disagree", RootPath)

\* equality of two results: instances are equal when their fields are
ValEq(a, b) ==
    IF a.k = "inst" /\ b.k = "inst" THEN a.cls = b.cls /\ a.f = b.f ELSE a = b
Repeated == round = 2 /\ Finished

\* C10 as stated: whenever a validation or a construction succeeds, running
\* it again on its own result succeeds with an equal result.
C10_Idempotent ==
    Repeated => (result.ok /\ ValEq(result.val, first.val))

\* the annotations in which every Union is an Optional[T]
RECURSIVE OnlyOptionalUnions(_)
OnlyOptionalUnions(t) ==
    CASE t.t = "union" ->
            IsOptional(t) /\ \A i \in 1..Len(t.vs) : OnlyOptionalUnions(t.vs[i])
      [] t.t = "list" -> OnlyOptionalUnions(t.e)
      [] t.t = "dict" -> OnlyOptionalUnions(t.key) /\ OnlyOptionalUnions(t.val)
      [] t.t = "tuple" -> \A i \in 1..Len(t.ts) : OnlyOptionalUnions(t.ts[i])
      [] OTHER -> TRUE
\* the schemas without transformation function and previous schema
Plain(c) ==
    /\ Schemas[c].prev = NoPrev
    /\ \A i \in 1..Len(FieldsOf(c)) :
          ~HasFn(FieldsOf(c)[i]) /\ OnlyOptionalUnions(FieldsOf(c)[i].type)

\* C10 amended: validating the result of a successful validation again
\* gives an equal result when every Union of the annotation is an
\* Optional[T]; constructing a schema again from the instance it returned
\* gives an instance with equal fields when the schema declares no
\* transformation function and no previous schema and every Union of its
\* fields is an Optional[T].
C10_IdempotentWhenPlain ==
    /\ (Repeated /\ job = "validate" /\ OnlyOptionalUnions(cls)) =>
          (result.ok /\ ValEq(result.val, first.val))
    /\ (Repeated /\ job = "construct" /\ Plain(cls)) =>
          (result.ok /\ ValEq(result.val, first.val))

C10_Witness ==
    /\ Repeated /\ job = "construct" /\ cls = "Items"
    /\ result.ok /\ ValEq(result.val, first.val)
    /\ InstAttr(result.val, "opt") = PyStr("3")


\* the declaration defect of C3, for one field
FieldConflict(fld) == HasFn(fld) /\ HasDefault(fld)
\* what the rules give for a field of a schema at object_path whose
\* effective source is a mapping or an instance: the function's result, else
\* the value under the key, else the default, else absent for an Optional,
\* each validated against the field's type, else the missing-field failure
Resolved(fld, source, object_path) ==
    IF HasFn(fld)
    THEN Bind(GetConvertedValue(fld.fn, source, object_path),
              LAMBDA v : AssignField(fld, v, object_path))
    ELSE IF SourceContains(source, fld.name).val
    THEN Bind(SourceGetItem(source, fld.name),
              LAMBDA v : AssignField(fld, v, object_path))
    ELSE IF HasDefault(fld) THEN AssignField(fld, fld.default, object_path)
    ELSE IF IsOptional(fld.type) THEN Ok(PyNone)
    ELSE SchemaExc(MsgMissing(fld.name), object_path)
\* the names of the fields of schema c that the construction tried to assign
AssignEvents(c) ==
    SelectSeq(events, LAMBDA e : e[1] = "assign" /\ e[2] = c)
DeclaredNames(c) == [i \in 1..Len(FieldsOf(c)) |-> FieldsOf(c)[i].name]

FloatAttempted ==
    \/ cls = TFloat
    \/ /\ cls.t = "union"
       /\ \E i \in 1..Len(cls.vs) :
             /\ cls.vs[i] = TFloat
             /\ \A j \in 1..(i - 1) : IsSchemaExc(Validated(cls.vs[j], obj, DefaultPath))
NotImplemented(r) == ~r.ok /\ r.exc = "NotImplementedError"

\* C12: every validation that reaches a float annotation, for whatever node
\* (None included), also as a variant of a Union, ends in
\* NotImplementedError and not in a SchemaException.
C12_FloatIsNotImplemented ==
    (ValidatedOnce /\ FloatAttempted) => NotImplemented(result)


\* C13: validation against Literal[c] returns the node exactly when the
\* node is c, of the same kind and the same value (True is not 1, 1 is not
\* True); every other node gives a SchemaException at the current path.
C13_LiteralMatchesExactly ==
    (ValidatedOnce /\ cls.t = "literal") =>
        /\ result.ok <=> obj = cls.v
        /\ result.ok => result.val = obj
        /\ ~result.ok => (IsSchemaExc(result) /\ result.path = DefaultPath)


IsPrefix(p, q) == Len(p) <= Len(q) /\ SubSeq(q, 1, Len(p)) = p
\* a call of the validator returns with a SchemaException
ValidateFails == job = "validate" /\ result = Pending /\ IsSchemaExc(result')
\* the assignment of a field fails with a SchemaException while its value,
\* which the source, the function or the default gave, is validated
FieldValueFails ==
    /\ Running /\ Top.phase = "fields" /\ Top.idx <= Len(FieldsOf(Top.cls))
    /\ IsSchemaExc(result')
    /\ Bind(Branch(FieldsOf(Top.cls)[Top.idx], Top.source),
            LAMBDA b : BranchValue(b, FieldsOf(Top.cls)[Top.idx], Top.source, Top.path)).ok
FailingField == FieldsOf(Top.cls)[Top.idx]
FailingValue ==
    Bind(Branch(FailingField, Top.source),
         LAMBDA b : BranchValue(b, FailingField, Top.source, Top.path)).val

\* C14: the path of a SchemaException is the path of the place it was
\* raised at, built from the outside in.  A failure of the value of field f
\* of a schema at P has a path that begins with P/f, also when it comes out
\* of a nested schema; a failure of a List at Q that is not about None has a
\* path that begins with Q[]; a failure of a Dict at Q given a dict has a
\* path that begins with "Q @ key k" for a key k that fails or
\* "Q @ value for key k" for a value that fails; a Dict given a node without
\* items() fails at exactly Q.
C14_PathsCompose ==
    [][ /\ FieldValueFails =>
              /\ IsPrefix(Top.path \o <<"/" \o FailingField.name>>, result'.path)
              /\ (FailingField.type.t = "dict" /\ FailingValue.k \notin {"dict", "none"}) =>
                    result'.path = Top.path \o <<"/" \o FailingField.name>>
              /\ (FailingField.type.t = "schema" /\ FailingValue.k = "dict"
                     /\ TreeContains(FailingValue, "port")) =>
                    result'.path = Top.path \o <<"/" \o FailingField.name, "/port">>
        /\ (ValidateFails /\ cls.t = "list" /\ obj # PyNone) =>
              IsPrefix(DefaultPath \o <<"[]">>, result'.path)
        /\ (ValidateFails /\ cls.t = "dict" /\ obj.k \notin {"dict", "none"}) =>
              result'.path = DefaultPath
        /\ (ValidateFails /\ cls.t = "dict" /\ obj.k = "dict") =>
              \E i \in 1..Len(obj.v) :
                 \/ /\ ~Validated(cls.key, obj.v[i][1], DefaultPath).ok
                    /\ IsPrefix(DefaultPath \o <<" @ key " \o obj.v[i][1].v>>, result'.path)
                 \/ /\ ~Validated(cls.val, obj.v[i][2], DefaultPath).ok
                    /\ IsPrefix(DefaultPath \o <<" @ value for key " \o obj.v[i][1].v>>,
                                result'.path)
      ]_vars

\* the port of the nested schema of field inner is not an integer
C14_Witness ==
    /\ ConstructedOnce /\ cls = "Outer"
    /\ obj = Mapping1("inner", Mapping1("port", PyStr("a")))
    /\ IsSchemaExc(result) /\ result.path = <<"/inner", "/port">>

=============================================================================
